---- MODULE Spec2Model ----
(***************************************************************************)
(* Kinship term calculator (src/src/App.tsx): the positional model         *)
(* (startPerson), the transition function (move), the path simulator       *)
(* (simulate), the term resolution (labelFor) and the App component's      *)
(* state (userGender, steps) with its memoised trace and label.            *)
(*                                                                         *)
(* Labels are the source's strings; the typographic apostrophe of the      *)
(* source is written as an ASCII apostrophe.                               *)
(***************************************************************************)
EXTENDS Integers, Sequences, FiniteSets, TLC

VARIABLES userGender, steps, trace, label

vars == <<userGender, steps, trace, label>>

\* Longest step list the Add buttons build (interactive paths are unbounded).
MaxSteps == 3

\* Longest step list handed to simulate/labelFor as a function input.
MaxPath == 3

----------------------------------------------------------------------------
\* Types

COLS == {"A", "B"}

otherCol(c) == IF c = "A" THEN "B" ELSE "A"

Gender == {"male", "female", "unknown"}

AgeRel == {"elder", "younger", "unknown"}

PlainKinds == {"father", "mother", "husband", "wife", "son", "daughter"}

SiblingSteps == {[kind |-> "sibling", gender |-> g, age |-> a] : g \in Gender, a \in AgeRel}

StepType == {[kind |-> k] : k \in PlainKinds} \cup SiblingSteps

----------------------------------------------------------------------------
\* Starting point: You at A2.

startPerson(g) ==
    [col |-> "A", row |-> 2, gender |-> g, refForAge |-> "you", noSiblingInGeneration |-> FALSE]

\* One case of move's switch per operator.

\* Variant: the father is placed in the same row.
moveFather_sameRow(p) ==
    [col |-> p.col, row |-> p.row, gender |-> "male", refForAge |-> "father",
     noSiblingInGeneration |-> TRUE]

moveFather(p) ==
    [col |-> p.col, row |-> p.row - 1, gender |-> "male", refForAge |-> "father",
     noSiblingInGeneration |-> TRUE]

\* Variant: the mother is placed in the child's own column.
moveMother_sameCol(p) ==
    [col |-> p.col, row |-> p.row - 1, gender |-> "female", refForAge |-> "mother",
     noSiblingInGeneration |-> TRUE]

moveMother(p) ==
    [col |-> otherCol(p.col), row |-> p.row - 1, gender |-> "female", refForAge |-> "mother",
     noSiblingInGeneration |-> TRUE]

\* Variant: a spouse step marks a direct relation by itself.
moveHusband_setsFlag(p) ==
    [col |-> IF p.gender = "male" THEN p.col ELSE otherCol(p.col), row |-> p.row,
     gender |-> "male", refForAge |-> "husband",
     noSiblingInGeneration |-> TRUE]

\* Variant: the spouse always crosses to the other column.
moveHusband_alwaysFlip(p) ==
    [col |-> otherCol(p.col), row |-> p.row,
     gender |-> "male", refForAge |-> "husband",
     noSiblingInGeneration |-> p.noSiblingInGeneration]

moveHusband(p) ==
    [col |-> IF p.gender = "male" THEN p.col ELSE otherCol(p.col), row |-> p.row,
     gender |-> "male", refForAge |-> "husband",
     noSiblingInGeneration |-> p.noSiblingInGeneration]

\* Variant: the spouse always crosses to the other column.
moveWife_alwaysFlip(p) ==
    [col |-> otherCol(p.col), row |-> p.row,
     gender |-> "female", refForAge |-> "wife",
     noSiblingInGeneration |-> p.noSiblingInGeneration]

moveWife(p) ==
    [col |-> IF p.gender = "female" THEN p.col ELSE otherCol(p.col), row |-> p.row,
     gender |-> "female", refForAge |-> "wife",
     noSiblingInGeneration |-> p.noSiblingInGeneration]

\* Variant: the child stays in the current person's column.
moveSon_ownCol(p) ==
    [col |-> p.col, row |-> p.row + 1, gender |-> "male", refForAge |-> "self",
     noSiblingInGeneration |-> TRUE]

moveSon(p) ==
    LET childCol == IF p.gender = "male" THEN p.col ELSE otherCol(p.col)
    IN  [col |-> childCol, row |-> p.row + 1, gender |-> "male", refForAge |-> "self",
         noSiblingInGeneration |-> TRUE]

\* Variant: the child stays in the current person's column.
moveDaughter_ownCol(p) ==
    [col |-> p.col, row |-> p.row + 1, gender |-> "female", refForAge |-> "self",
     noSiblingInGeneration |-> TRUE]

\* Variant: a child step passes the flag of the parent on.
moveDaughter_inheritsFlag(p) ==
    LET childCol == IF p.gender = "male" THEN p.col ELSE otherCol(p.col)
    IN  [col |-> childCol, row |-> p.row + 1, gender |-> "female", refForAge |-> "self",
         noSiblingInGeneration |-> p.noSiblingInGeneration]

moveDaughter(p) ==
    LET childCol == IF p.gender = "male" THEN p.col ELSE otherCol(p.col)
    IN  [col |-> childCol, row |-> p.row + 1, gender |-> "female", refForAge |-> "self",
         noSiblingInGeneration |-> TRUE]

\* Variant: a sibling step records a tag of its own.
moveSibling_ownTag(p, step) ==
    [col |-> p.col, row |-> p.row, gender |-> step.gender, refForAge |-> "sibling",
     noSiblingInGeneration |-> FALSE]

moveSibling(p, step) ==
    [col |-> p.col, row |-> p.row, gender |-> step.gender, refForAge |-> p.refForAge,
     noSiblingInGeneration |-> FALSE]

move(person, step) ==
    CASE step.kind = "father"   -> moveFather(person)
      [] step.kind = "mother"   -> moveMother(person)
      [] step.kind = "husband"  -> moveHusband(person)
      [] step.kind = "wife"     -> moveWife(person)
      [] step.kind = "son"      -> moveSon(person)
      [] step.kind = "daughter" -> moveDaughter(person)
      [] step.kind = "sibling"  -> moveSibling(person, step)

\* The for-loop of simulate: p is the running person, arr the array pushed to.
RECURSIVE simulateLoop(_, _, _)
simulateLoop(arr, p, rest) ==
    IF rest = <<>> THEN arr
    ELSE LET q == move(p, Head(rest))
         IN  simulateLoop(Append(arr, q), q, Tail(rest))

\* Variant: the loop stops one step early.
simulate_dropLast(g, path) ==
    LET arr == <<startPerson(g)>>
    IN  simulateLoop(arr, arr[1], IF path = <<>> THEN path ELSE SubSeq(path, 1, Len(path) - 1))

simulate(g, path) ==
    LET arr == <<startPerson(g)>>
    IN  simulateLoop(arr, arr[1], path)

----------------------------------------------------------------------------
\* labelFor, one operator per block of the function.  A block that returns
\* nothing (control falls out of it) yields FallThrough.

FallThrough == "<no return>"

\* Variant: a younger sibling gets the elder sibling's term.
siblingLabel_ageIgnored(last) ==
    IF last.gender = "male"
    THEN (IF last.age = "unknown" THEN "aNNa/tamma (brother)" ELSE "aNNa (elder brother)")
    ELSE IF last.gender = "female"
    THEN (IF last.age = "unknown" THEN "akka/tangi (sister)" ELSE "akka (elder sister)")
    ELSE "Sibling (need gender/age)"

siblingLabel(last) ==
    IF last.gender = "male"
    THEN (IF last.age = "elder" THEN "aNNa (elder brother)"
          ELSE IF last.age = "younger" THEN "tamma (younger brother)"
          ELSE "aNNa/tamma (brother)")
    ELSE IF last.gender = "female"
    THEN (IF last.age = "elder" THEN "akka (elder sister)"
          ELSE IF last.age = "younger" THEN "tangi (younger sister)"
          ELSE "akka/tangi (sister)")
    ELSE "Sibling (need gender/age)"

labelRow2A(person, last) ==
    IF last.kind = "sibling" THEN siblingLabel(last)
    ELSE IF person.gender = "male" THEN "aNNa/tamma (brother/cousin treated as sibling)"
    ELSE IF person.gender = "female" THEN "akka/tangi (sister/cousin treated as sibling)"
    ELSE "Sibling/cousin in same block"

effectiveColOf(person, last, tr) ==
    LET cameViaChild == last.kind = "son" \/ last.kind = "daughter"
    IN  IF cameViaChild /\ Len(tr) >= 2
        THEN LET parent == tr[Len(tr) - 1]
             IN  IF parent.gender = "male" THEN parent.col ELSE otherCol(parent.col)
        ELSE person.col

\* Variant: the two columns of the uncle terms are exchanged.
labelRow1_swappedUncles(person, last, tr) ==
    LET effectiveCol == effectiveColOf(person, last, tr)
    IN  IF person.gender = "male"
        THEN (IF person.noSiblingInGeneration THEN "Appa (father)"
              ELSE IF effectiveCol = "B" THEN "doDDappa/chikkappa (father's brother)"
              ELSE "MAva (maternal uncle)")
        ELSE IF person.gender = "female"
        THEN (IF person.noSiblingInGeneration THEN "Amma (mother)"
              ELSE IF effectiveCol = "A" THEN "Atthe (father's sister / paternal aunt)"
              ELSE "doDDamma/chikkamma (mother's sister)")
        ELSE FallThrough

labelRow1(person, last, tr) ==
    LET effectiveCol == effectiveColOf(person, last, tr)
    IN  IF person.gender = "male"
        THEN (IF person.noSiblingInGeneration THEN "Appa (father)"
              ELSE IF effectiveCol = "A" THEN "doDDappa/chikkappa (father's brother)"
              ELSE "MAva (maternal uncle)")
        ELSE IF person.gender = "female"
        THEN (IF person.noSiblingInGeneration THEN "Amma (mother)"
              ELSE IF effectiveCol = "A" THEN "Atthe (father's sister / paternal aunt)"
              ELSE "doDDamma/chikkamma (mother's sister)")
        ELSE FallThrough

siblingInLawLabel(last) ==
    IF last.gender = "male"
    THEN (IF last.age = "elder" THEN "BhAva (elder brother-in-law)"
          ELSE IF last.age = "younger" THEN "Maiduna (younger brother-in-law)"
          ELSE "BhAva/Maiduna (brother-in-law)")
    ELSE IF last.gender = "female"
    THEN (IF last.age = "elder" THEN "Attige (elder sister-in-law)"
          ELSE IF last.age = "younger" THEN "NAdini (younger sister-in-law)"
          ELSE "Attige/NAdini (sister-in-law)")
    ELSE "Sibling-in-law (need gender/age)"

\* Variant: the spouse terms are given without looking at the path length.
labelRow2B_anyLength(person, path, last) ==
    IF last.kind = "husband" THEN "GanDa (husband)"
    ELSE IF last.kind = "wife" THEN "HenDathi (wife)"
    ELSE IF last.kind = "sibling" THEN siblingInLawLabel(last)
    ELSE IF person.gender = "male" THEN "BhAva/Maiduna (cousin-in-law)"
    ELSE IF person.gender = "female" THEN "Attige/NAdini (cousin-in-law)"
    ELSE FallThrough

labelRow2B(person, path, last) ==
    IF Len(path) = 1 /\ last.kind = "husband" THEN "GanDa (husband)"
    ELSE IF Len(path) = 1 /\ last.kind = "wife" THEN "HenDathi (wife)"
    ELSE IF last.kind = "sibling" THEN siblingInLawLabel(last)
    ELSE IF person.gender = "male" THEN "BhAva/Maiduna (cousin-in-law)"
    ELSE IF person.gender = "female" THEN "Attige/NAdini (cousin-in-law)"
    ELSE FallThrough

\* Variant: the in-law terms of row 3 are missing.
labelRow3_noInLaws(person, last) ==
    IF person.gender = "male"
    THEN (IF last.kind = "son" THEN "Maga (son)" ELSE "Mommagga (grandson)")
    ELSE IF person.gender = "female"
    THEN (IF last.kind = "daughter" THEN "MagaLu (daughter)" ELSE "Mommagalu (granddaughter)")
    ELSE FallThrough

labelRow3(person, last) ==
    IF person.gender = "male"
    THEN (IF last.kind = "son" THEN "Maga (son)"
          ELSE IF last.kind = "husband" THEN "ALiya (son-in-law)"
          ELSE "Mommagga (grandson)")
    ELSE IF person.gender = "female"
    THEN (IF last.kind = "daughter" THEN "MagaLu (daughter)"
          ELSE IF last.kind = "wife" THEN "Sose (daughter-in-law)"
          ELSE "Mommagalu (granddaughter)")
    ELSE FallThrough

labelRow4(person) ==
    IF person.gender = "male" THEN "Mommagga (grandson)"
    ELSE IF person.gender = "female" THEN "Mommagalu (granddaughter)"
    ELSE FallThrough

\* Variant: a grandparent of unknown gender gets the grandmother term.
labelRow0_noUnknown(person) ==
    IF person.gender = "male" THEN "Ajja (grandfather)" ELSE "Ajji (grandmother)"

labelRow0(person) ==
    IF person.gender = "male" THEN "Ajja (grandfather)"
    ELSE IF person.gender = "female" THEN "Ajji (grandmother)"
    ELSE "Ajja/Ajji (grandparent)"

labelRowMinus1(person) ==
    IF person.gender = "male" THEN "Muttajja (great-grandfather)"
    ELSE IF person.gender = "female" THEN "Muttajji (great-grandmother)"
    ELSE "Muttajja/Muttajji (great-grandparent)"

\* The blocks after the A2 block, in source order; each is tried only if the
\* blocks before it returned nothing.
\* Variant: the grandchild terms are given for every row from 4 on.
labelAfterRow2A_row4AndBeyond(person, path, last, tr) ==
    LET r1  == IF person.row = 1 THEN labelRow1(person, last, tr) ELSE FallThrough
        r2b == IF person.row = 2 /\ person.col = "B"
               THEN labelRow2B(person, path, last) ELSE FallThrough
        r3  == IF person.row = 3 THEN labelRow3(person, last) ELSE FallThrough
        r4  == IF person.row >= 4 THEN labelRow4(person) ELSE FallThrough
    IN  IF r1 # FallThrough THEN r1
        ELSE IF r2b # FallThrough THEN r2b
        ELSE IF r3 # FallThrough THEN r3
        ELSE IF r4 # FallThrough THEN r4
        ELSE IF person.row = 0 THEN labelRow0(person)
        ELSE IF person.row = -1 THEN labelRowMinus1(person)
        ELSE "Relationship not yet covered by this demo"

labelAfterRow2A(person, path, last, tr) ==
    LET r1  == IF person.row = 1 THEN labelRow1(person, last, tr) ELSE FallThrough
        r2b == IF person.row = 2 /\ person.col = "B"
               THEN labelRow2B(person, path, last) ELSE FallThrough
        r3  == IF person.row = 3 THEN labelRow3(person, last) ELSE FallThrough
        r4  == IF person.row = 4 THEN labelRow4(person) ELSE FallThrough
    IN  IF r1 # FallThrough THEN r1
        ELSE IF r2b # FallThrough THEN r2b
        ELSE IF r3 # FallThrough THEN r3
        ELSE IF r4 # FallThrough THEN r4
        ELSE IF person.row = 0 THEN labelRow0(person)
        ELSE IF person.row = -1 THEN labelRowMinus1(person)
        ELSE "Relationship not yet covered by this demo"

\* Variant: self is recognised by the cell and gender instead of the path.
labelFor_selfByPosition(person, path, g, tr) ==
    IF person.row = 2 /\ person.col = "A" /\ person.gender = g /\ person.refForAge \in {"you", "self"}
    THEN "You"
    ELSE LET last == path[Len(path)]
         IN  IF person.row = 2 /\ person.col = "A"
             THEN labelRow2A(person, last)
             ELSE labelAfterRow2A(person, path, last, tr)

\* Variant: the in-law terms of a sibling are given only next to a spouse
\* (refForAge husband or wife), and a self of unknown gender gets no
\* spouse-side term.
labelFor_readsAnchor(person, path, g, tr) ==
    IF Len(path) = 0 THEN "You"
    ELSE LET last == path[Len(path)]
         IN  IF person.row = 2 /\ person.col = "A"
             THEN labelRow2A(person, last)
             ELSE IF /\ person.row = 2 /\ person.col = "B" /\ last.kind = "sibling"
                     /\ (person.refForAge \notin {"husband", "wife"} \/ g = "unknown")
             THEN "Relationship not yet covered by this demo"
             ELSE labelAfterRow2A(person, path, last, tr)

labelFor(person, path, g, tr) ==
    IF Len(path) = 0 THEN "You"
    ELSE LET last == path[Len(path)]
         IN  IF person.row = 2 /\ person.col = "A"
             THEN labelRow2A(person, last)
             ELSE labelAfterRow2A(person, path, last, tr)

----------------------------------------------------------------------------
\* The App component.  A render recomputes both memos from the new state.

\* The steps the "Add a..." buttons produce: the six plain kinds and the
\* six brother / sister buttons.
ButtonSteps ==
    {[kind |-> k] : k \in PlainKinds}
    \cup {[kind |-> "sibling", gender |-> g, age |-> a] : g \in {"male", "female"}, a \in AgeRel}

Sib(g, a) == [kind |-> "sibling", gender |-> g, age |-> a]

Examples ==
    << <<[kind |-> "mother"], [kind |-> "mother"], Sib("female", "unknown"), [kind |-> "daughter"]>>,
       <<[kind |-> "mother"], [kind |-> "mother"], Sib("male", "unknown"), [kind |-> "daughter"]>>,
       <<[kind |-> "mother"], Sib("male", "unknown")>>,
       <<[kind |-> "father"], Sib("female", "unknown")>>,
       <<[kind |-> "husband"], Sib("female", "elder")>>,
       <<[kind |-> "wife"], Sib("male", "younger")>>,
       <<[kind |-> "mother"], Sib("male", "unknown"), [kind |-> "son"]>>,
       <<[kind |-> "father"], Sib("female", "unknown"), [kind |-> "daughter"]>> >>

Render(g, st) ==
    LET t == simulate(g, st)
        dest == t[Len(t)]
    IN  /\ trace' = t
        /\ label' = labelFor(dest, st, g, t)

Init ==
    /\ userGender = "male"
    /\ steps = <<>>
    /\ trace = simulate("male", <<>>)
    /\ label = labelFor(trace[Len(trace)], <<>>, "male", trace)

add(prev, s) == Append(prev, s)

\* Variant: undo removes the first step instead of the last.
pop_dropFirst(prev) == IF Len(prev) = 0 THEN <<>> ELSE Tail(prev)

pop(prev) == IF Len(prev) = 0 THEN <<>> ELSE SubSeq(prev, 1, Len(prev) - 1)

Add(s) ==
    /\ Len(steps) < MaxSteps
    /\ steps' = add(steps, s)
    /\ UNCHANGED userGender
    /\ Render(userGender, steps')

\* The Undo and Reset buttons are disabled while the list is empty.
Pop ==
    /\ Len(steps) # 0
    /\ steps' = pop(steps)
    /\ UNCHANGED userGender
    /\ Render(userGender, steps')

Reset ==
    /\ Len(steps) # 0
    /\ steps' = <<>>
    /\ UNCHANGED userGender
    /\ Render(userGender, steps')

RunExample(i) ==
    /\ steps' = Examples[i]
    /\ UNCHANGED userGender
    /\ Render(userGender, steps')

SetUserGender(g) ==
    /\ userGender' = g
    /\ UNCHANGED steps
    /\ Render(g, steps)

Next ==
    \/ \E s \in ButtonSteps : Add(s)
    \/ Pop
    \/ Reset
    \/ \E i \in 1..Len(Examples) : RunExample(i)
    \/ \E g \in Gender : SetUserGender(g)

Spec == Init /\ [][Next]_vars

----------------------------------------------------------------------------
\* The functions on their whole input type: any self-gender and any step
\* list over StepType up to MaxPath, then one call of simulate and labelFor.

Paths == UNION {[1..n -> StepType] : n \in 0..MaxPath}

InitFn ==
    /\ userGender \in Gender
    /\ steps \in Paths
    /\ trace = <<>>
    /\ label = ""

Resolve ==
    /\ trace = <<>>
    /\ UNCHANGED <<userGender, steps>>
    /\ Render(userGender, steps)

NextFn == Resolve

SpecFn == InitFn /\ [][NextFn]_vars

----------------------------------------------------------------------------
\* Shorthands for the properties below.

Resolved == trace # <<>>

dest == trace[Len(trace)]

lastStep == steps[Len(steps)]

Opposite(c) == CHOOSE d \in COLS : d # c

KnownGender(g) == g \in {"male", "female"}

----------------------------------------------------------------------------
\* C1: a non-empty path ending in row 1 with a known gender resolves to
\* father / mother when noSiblingInGeneration is set, and otherwise to the
\* uncle / aunt term of the effective column (the final column, or after a
\* son / daughter step the father-column of the second-to-last trace entry);
\* [mother, brother] is the mother's brother, [father, sister] the father's
\* sister.
C1_EffectiveCol ==
    IF lastStep.kind \in {"son", "daughter"}
    THEN LET prev == trace[Len(trace) - 1]
         IN  IF prev.gender = "male" THEN prev.col ELSE Opposite(prev.col)
    ELSE dest.col

C1_Expected ==
    IF dest.gender = "male"
    THEN (IF dest.noSiblingInGeneration THEN "Appa (father)"
          ELSE IF C1_EffectiveCol = "A" THEN "doDDappa/chikkappa (father's brother)"
          ELSE "MAva (maternal uncle)")
    ELSE (IF dest.noSiblingInGeneration THEN "Amma (mother)"
          ELSE IF C1_EffectiveCol = "A" THEN "Atthe (father's sister / paternal aunt)"
          ELSE "doDDamma/chikkamma (mother's sister)")

C1_Row1Terms ==
    Resolved =>
      /\ (Len(steps) > 0 /\ dest.row = 1 /\ KnownGender(dest.gender)) => label = C1_Expected
      /\ (userGender = "male" /\ steps = <<[kind |-> "mother"], Sib("male", "unknown")>>)
            => label = "MAva (maternal uncle)"
      /\ (userGender = "male" /\ steps = <<[kind |-> "father"], Sib("female", "unknown")>>)
            => label = "Atthe (father's sister / paternal aunt)"

C1_Witness ==
    /\ Resolved
    /\ userGender = "male"
    /\ steps = <<[kind |-> "mother"], Sib("male", "unknown")>>
    /\ dest.row = 1 /\ dest.col = "B" /\ ~dest.noSiblingInGeneration
    /\ label = "MAva (maternal uncle)"

\* C2: for a male self and [mother, mother, sister, daughter] the trace
\* visits B1, A0, A0 (female) and ends in row 1 as a female, and the term is
\* the father's-sister or mother's-sister term chosen by the effective
\* column derived from the second-to-last trace entry.
C2_Scenario6 ==
    (userGender = "male" /\ steps = Examples[1]) =>
      /\ trace[2].col = "B" /\ trace[2].row = 1
      /\ trace[3].col = "A" /\ trace[3].row = 0
      /\ trace[4].col = "A" /\ trace[4].row = 0 /\ trace[4].gender = "female"
      /\ dest.row = 1 /\ dest.gender = "female"
      /\ label = (IF C1_EffectiveCol = "A" THEN "Atthe (father's sister / paternal aunt)"
                  ELSE "doDDamma/chikkamma (mother's sister)")

\* C3: noSiblingInGeneration of the final position of a non-empty path.
GenerationChange(s) == s.kind \in {"father", "mother", "son", "daughter"}

\* Index of the most recent generation-changing step, 0 if there is none.
LastGenerationChange(path) ==
    LET idx == {i \in 1..Len(path) : GenerationChange(path[i])}
    IN  IF idx = {} THEN 0 ELSE CHOOSE i \in idx : \A j \in idx : j <= i

NoSiblingAfter(path, i) == \A j \in (i + 1)..Len(path) : path[j].kind # "sibling"

C4_InLaw(g, a) ==
    CASE g = "male" /\ a = "elder"     -> "BhAva (elder brother-in-law)"
      [] g = "male" /\ a = "younger"   -> "Maiduna (younger brother-in-law)"
      [] g = "male" /\ a = "unknown"   -> "BhAva/Maiduna (brother-in-law)"
      [] g = "female" /\ a = "elder"   -> "Attige (elder sister-in-law)"
      [] g = "female" /\ a = "younger" -> "NAdini (younger sister-in-law)"
      [] g = "female" /\ a = "unknown" -> "Attige/NAdini (sister-in-law)"
      [] g = "unknown"                 -> "Sibling-in-law (need gender/age)"

C4_Row2B ==
    (Resolved /\ Len(steps) > 0 /\ dest.row = 2 /\ dest.col = "B") =>
      IF steps = <<[kind |-> "husband"]>> THEN label = "GanDa (husband)"
      ELSE IF steps = <<[kind |-> "wife"]>> THEN label = "HenDathi (wife)"
      ELSE IF lastStep.kind = "sibling" THEN label = C4_InLaw(lastStep.gender, lastStep.age)
      ELSE /\ dest.gender = "male" => label = "BhAva/Maiduna (cousin-in-law)"
           /\ dest.gender = "female" => label = "Attige/NAdini (cousin-in-law)"
           /\ KnownGender(dest.gender)

C4_Witness ==
    /\ Resolved
    /\ userGender = "male"
    /\ steps = <<[kind |-> "wife"], Sib("male", "younger")>>
    /\ dest.row = 2 /\ dest.col = "B"
    /\ label = "Maiduna (younger brother-in-law)"

\* C5: a non-empty path ending in A2 whose last step is a brother or sister
\* step resolves to one of six pairwise distinct terms fixed by the step's
\* gender and age; one whose last step is not a sibling step resolves to
\* the treated-as-sibling term of the position's gender.
C5_Sibling(g, a) ==
    CASE g = "male" /\ a = "elder"     -> "aNNa (elder brother)"
      [] g = "male" /\ a = "younger"   -> "tamma (younger brother)"
      [] g = "male" /\ a = "unknown"   -> "aNNa/tamma (brother)"
      [] g = "female" /\ a = "elder"   -> "akka (elder sister)"
      [] g = "female" /\ a = "younger" -> "tangi (younger sister)"
      [] g = "female" /\ a = "unknown" -> "akka/tangi (sister)"

C5_Row2A ==
    (Resolved /\ Len(steps) > 0 /\ dest.row = 2 /\ dest.col = "A") =>
      /\ (lastStep.kind = "sibling" /\ KnownGender(lastStep.gender)) =>
            /\ label = C5_Sibling(lastStep.gender, lastStep.age)
            /\ \A g \in {"male", "female"}, a \in AgeRel :
                  <<g, a>> # <<lastStep.gender, lastStep.age>> => C5_Sibling(g, a) # label
      /\ lastStep.kind # "sibling" =>
            /\ dest.gender = "male" => label = "aNNa/tamma (brother/cousin treated as sibling)"
            /\ dest.gender = "female" => label = "akka/tangi (sister/cousin treated as sibling)"
            /\ KnownGender(dest.gender)

C5_Witness ==
    /\ Resolved
    /\ Len(steps) > 1
    /\ dest.row = 2 /\ dest.col = "A"
    /\ lastStep = Sib("female", "younger")
    /\ label = "tangi (younger sister)"

\* C6: a path ending in row 3 resolves, for a male, to son after a son
\* step, son-in-law after a husband step and grandson otherwise; for a
\* female, to daughter after a daughter step, daughter-in-law after a wife
\* step and granddaughter otherwise.
C6_Row3 ==
    (Resolved /\ Len(steps) > 0 /\ dest.row = 3) =>
      /\ dest.gender = "male" =>
            label = (IF lastStep.kind = "son" THEN "Maga (son)"
                     ELSE IF lastStep.kind = "husband" THEN "ALiya (son-in-law)"
                     ELSE "Mommagga (grandson)")
      /\ dest.gender = "female" =>
            label = (IF lastStep.kind = "daughter" THEN "MagaLu (daughter)"
                     ELSE IF lastStep.kind = "wife" THEN "Sose (daughter-in-law)"
                     ELSE "Mommagalu (granddaughter)")

C6_Witness ==
    /\ Resolved
    /\ steps = <<[kind |-> "daughter"], [kind |-> "husband"]>>
    /\ dest.row = 3 /\ dest.gender = "male"
    /\ label = "ALiya (son-in-law)"

\* C7: simulate returns a trace one longer than the step list, starting at
\* startPerson(selfGender), each entry being move of the entry before it and
\* the corresponding step; the empty list gives the trace holding only self.
C7_TraceShape ==
    Resolved =>
      /\ Len(trace) = Len(steps) + 1
      /\ trace[1] = startPerson(userGender)
      /\ \A i \in 1..Len(steps) : trace[i + 1] = move(trace[i], steps[i])
      /\ steps = <<>> => trace = <<startPerson(userGender)>>

C7_Witness ==
    /\ Resolved
    /\ Len(steps) = MaxPath
    /\ Len(trace) = MaxPath + 1
    /\ trace[Len(trace)] # trace[Len(trace) - 1]

C9_ChildStep ==
    Resolved =>
      \A i \in 1..Len(steps) :
        LET p == trace[i]
            q == trace[i + 1]
        IN  (steps[i].kind \in {"son", "daughter"} /\ KnownGender(p.gender)) =>
              /\ q.col = (IF p.gender = "male" THEN p.col ELSE Opposite(p.col))
              /\ q.gender = (IF steps[i].kind = "son" THEN "male" ELSE "female")
              /\ q.refForAge = "self"
              /\ q.noSiblingInGeneration

C9_Witness ==
    /\ Resolved
    /\ \E i \in 1..Len(steps) :
          /\ steps[i].kind = "daughter"
          /\ trace[i].gender = "male"
          /\ ~trace[i].noSiblingInGeneration
          /\ trace[i + 1].col = trace[i].col

\* C10: a mother step yields the opposite column of its input, a father
\* step and a sibling step yield the same column, and every column of a
\* trace is A or B.
C10_Columns ==
    Resolved =>
      /\ \A i \in 1..Len(trace) : trace[i].col \in {"A", "B"}
      /\ \A i \in 1..Len(steps) :
            /\ steps[i].kind = "mother" => trace[i + 1].col = Opposite(trace[i].col)
            /\ steps[i].kind \in {"father", "sibling"} => trace[i + 1].col = trace[i].col

C10_Witness ==
    /\ Resolved
    /\ \E i \in 1..Len(steps) :
          steps[i].kind = "mother" /\ trace[i].col = "B" /\ trace[i + 1].col = "A"
    /\ \E i \in 1..Len(steps) :
          steps[i].kind = "sibling" /\ trace[i].col = "B" /\ trace[i + 1].col = "B"

\* C11: between consecutive trace positions the row drops by exactly 1 on a
\* father or mother step, rises by exactly 1 on a son or daughter step and
\* stays on a husband, wife or sibling step; the final row is 2 minus the
\* number of father / mother steps plus the number of son / daughter steps.
C11_Count(kinds) == Cardinality({i \in 1..Len(steps) : steps[i].kind \in kinds})

C11_Rows ==
    Resolved =>
      /\ \A i \in 1..Len(steps) :
            trace[i + 1].row - trace[i].row =
               (IF steps[i].kind \in {"father", "mother"} THEN -1
                ELSE IF steps[i].kind \in {"son", "daughter"} THEN 1
                ELSE 0)
      /\ dest.row = 2 - C11_Count({"father", "mother"}) + C11_Count({"son", "daughter"})

C11_Witness ==
    /\ Resolved
    /\ Len(steps) = 3
    /\ steps[1].kind = "father" /\ steps[2].kind = "sibling" /\ steps[3].kind = "daughter"
    /\ trace[2].row = 1 /\ trace[3].row = 1 /\ dest.row = 2

\* C12: every call of labelFor returns one of its term strings, and for a
\* non-empty path whose final row is outside -1..4 that term is
\* "Relationship not yet covered by this demo".
C12_Terms ==
    { "You",
      "aNNa (elder brother)", "tamma (younger brother)", "aNNa/tamma (brother)",
      "akka (elder sister)", "tangi (younger sister)", "akka/tangi (sister)",
      "Sibling (need gender/age)",
      "aNNa/tamma (brother/cousin treated as sibling)",
      "akka/tangi (sister/cousin treated as sibling)",
      "Sibling/cousin in same block",
      "Appa (father)", "doDDappa/chikkappa (father's brother)", "MAva (maternal uncle)",
      "Amma (mother)", "Atthe (father's sister / paternal aunt)",
      "doDDamma/chikkamma (mother's sister)",
      "GanDa (husband)", "HenDathi (wife)",
      "BhAva (elder brother-in-law)", "Maiduna (younger brother-in-law)",
      "BhAva/Maiduna (brother-in-law)",
      "Attige (elder sister-in-law)", "NAdini (younger sister-in-law)",
      "Attige/NAdini (sister-in-law)", "Sibling-in-law (need gender/age)",
      "BhAva/Maiduna (cousin-in-law)", "Attige/NAdini (cousin-in-law)",
      "Maga (son)", "ALiya (son-in-law)", "Mommagga (grandson)",
      "MagaLu (daughter)", "Sose (daughter-in-law)", "Mommagalu (granddaughter)",
      "Ajja (grandfather)", "Ajji (grandmother)", "Ajja/Ajji (grandparent)",
      "Muttajja (great-grandfather)", "Muttajji (great-grandmother)",
      "Muttajja/Muttajji (great-grandparent)",
      "Relationship not yet covered by this demo" }

C14_SelfTerm ==
    Resolved =>
      /\ label = "You" <=> steps = <<>>
      /\ steps = <<>> => (dest.col = "A" /\ dest.row = 2 /\ dest.gender = userGender)

C14_Witness ==
    /\ Resolved
    /\ steps = <<[kind |-> "father"], [kind |-> "son"]>>
    /\ userGender = "male"
    /\ dest.col = "A" /\ dest.row = 2 /\ dest.gender = userGender
    /\ label = "aNNa/tamma (brother/cousin treated as sibling)"

\* C15 as stated: the starting position of self-gender g is column A, row 2,
\* gender g, age reference "self", noSiblingInGeneration false, and every
\* age reference of a trace is one of self, father, mother, husband, wife.
C15_Original ==
    Resolved =>
      /\ trace[1] = [col |-> "A", row |-> 2, gender |-> userGender, refForAge |-> "self",
                     noSiblingInGeneration |-> FALSE]
      /\ \A i \in 1..Len(trace) :
            trace[i].refForAge \in {"self", "father", "mother", "husband", "wife"}

\* C15 (amended): the starting position of self-gender g is column A, row 2,
\* gender g, refForAge "you", noSiblingInGeneration false, and every
\* refForAge of a trace is one of you, self, father, mother, husband, wife.
C15_Amended ==
    Resolved =>
      /\ \A g \in Gender :
            startPerson(g) = [col |-> "A", row |-> 2, gender |-> g, refForAge |-> "you",
                              noSiblingInGeneration |-> FALSE]
      /\ trace[1] = [col |-> "A", row |-> 2, gender |-> userGender, refForAge |-> "you",
                     noSiblingInGeneration |-> FALSE]
      /\ \A i \in 1..Len(trace) :
            trace[i].refForAge \in {"you", "self", "father", "mother", "husband", "wife"}

C15_Witness ==
    /\ Resolved
    /\ Len(steps) = 3
    /\ steps[1].kind = "sibling" /\ steps[2].kind = "son" /\ steps[3].kind = "sibling"
    /\ trace[1].refForAge = "you" /\ trace[2].refForAge = "you"
    /\ trace[3].refForAge = "self" /\ dest.refForAge = "self"

\* C16: after any sequence of UI actions the step list is the result of
\* append on add, drop-last on undo and clear on reset, and the displayed
\* trace and term are simulate and labelFor of the current list; adding a
\* step and undoing it shows the trace and term from before the add, and
\* undo on an empty list leaves it empty.
C16_Display ==
    /\ trace = simulate(userGender, steps)
    /\ label = labelFor(trace[Len(trace)], steps, userGender, trace)

C16_UndoRestores ==
    \A s \in ButtonSteps :
      LET after == pop(add(steps, s))
          t == simulate(userGender, after)
      IN  /\ after = steps
          /\ t = trace
          /\ labelFor(t[Len(t)], after, userGender, t) = label

C16_EmptyUndo == pop(<<>>) = <<>>

C16_Handlers ==
    /\ \A s \in ButtonSteps :
          Add(s) => (Len(steps') = Len(steps) + 1
                     /\ SubSeq(steps', 1, Len(steps)) = steps
                     /\ steps'[Len(steps')] = s)
    /\ Pop => (Len(steps') = Len(steps) - 1 /\ steps' = SubSeq(steps, 1, Len(steps) - 1))
    /\ Reset => steps' = <<>>
    /\ \A i \in 1..Len(Examples) : RunExample(i) => steps' = Examples[i]
    /\ \A g \in Gender : SetUserGender(g) => steps' = steps
    /\ C16_Display'

C16_UIConsistent ==
    /\ [](C16_Display /\ C16_UndoRestores /\ C16_EmptyUndo)
    /\ [][C16_Handlers]_vars

C16_Witness ==
    /\ userGender = "female"
    /\ steps = <<[kind |-> "husband"], Sib("female", "elder"), [kind |-> "son"]>>
    /\ Len(trace) = 4
    /\ label = "Maga (son)"

\* C17: when the last step is son or daughter, the effective column that
\* labelFor derives from the second-to-last trace entry (a male keeps the
\* column, anyone else flips it) is the final position's own column.
C17_LookbackIsOwnColumn ==
    (Resolved /\ Len(steps) > 0 /\ lastStep.kind \in {"son", "daughter"}) =>
      /\ effectiveColOf(dest, lastStep, trace) = dest.col
      /\ LET parent == trace[Len(trace) - 1]
         IN  dest.col = (IF parent.gender = "male" THEN parent.col ELSE Opposite(parent.col))

C17_Witness ==
    /\ Resolved
    /\ Len(steps) = 3
    /\ lastStep.kind = "son"
    /\ dest.row = 1
    /\ trace[Len(trace) - 1].gender = "female"
    /\ trace[Len(trace) - 1].col = "A"
    /\ dest.col = "B"

C20_Tags == {"you", "self", "father", "mother", "husband", "wife"}

C20_Person(tag) ==
    [col |-> dest.col, row |-> dest.row, gender |-> dest.gender, refForAge |-> tag,
     noSiblingInGeneration |-> dest.noSiblingInGeneration]

C20_Path ==
    [i \in 1..Len(steps) |-> IF i = Len(steps) THEN lastStep ELSE [kind |-> "elided"]]

C20_Trace(tag) ==
    [i \in 1..Len(trace) |->
        IF i = Len(trace) THEN C20_Person(tag)
        ELSE IF i = Len(trace) - 1 THEN [col |-> trace[i].col, gender |-> trace[i].gender]
        ELSE [elided |-> TRUE]]

C20_Independent ==
    Resolved =>
      \A tag \in C20_Tags, g \in Gender :
        labelFor(C20_Person(tag), C20_Path, g, C20_Trace(tag)) = label

C20_Witness ==
    /\ Resolved
    /\ userGender = "male"
    /\ steps = <<[kind |-> "wife"], Sib("male", "younger")>>
    /\ dest.refForAge = "wife"
    /\ label = "Maiduna (younger brother-in-law)"
    /\ labelFor(C20_Person("you"), C20_Path, "female", C20_Trace("you")) = label

====
